---- MODULE Spec2Model ----
(***************************************************************************)
(* Intent Recognition Router (apps/intent-router/main.py).                 *)
(*                                                                         *)
(* Python values are tagged records (None, Str, Num, List).  A Python str  *)
(* is a finite sequence of symbols; a symbol of the model stands for a     *)
(* run of characters ("/pay", "refund", "5"), so prefix, substring and     *)
(* anchored regular-expression matching are computed on sequences as the   *)
(* code computes them on characters.  A float is a fixed-point integer in  *)
(* units of 1/Unit; IEEE rounding is not modelled.  An exception leaving a *)
(* function is the result [exc |-> TRUE, ...].                             *)
(***************************************************************************)
EXTENDS Integers, Sequences, FiniteSets, TLC

(***************************************************************************)
(* Bounds of the model.                                                    *)
(***************************************************************************)
\* longest list of leaf conditions drawn for a rule (SpecRule)
MaxLeaves == 2
\* longest list of rules drawn for _apply_routing_rules (SpecSources)
MaxRules == 2
\* longest list of categories drawn for _match_patterns (SpecSources)
MaxCategories == 2
\* /route calls started in one behaviour of one handler (SpecBreaker)
MaxBreakerCalls == 6
\* calls started in one behaviour of two racing handlers (Spec)
MaxCalls == 3
\* calls started in one behaviour of a single handler (SpecEngine)
MaxEngineCalls == 2
\* calls of POST /route started in one behaviour (SpecRoute)
MaxRouteCalls == 7
\* clock ticks in one behaviour
MaxTicks == 1

(***************************************************************************)
(* Python values.                                                          *)
(***************************************************************************)
None == [k |-> "none"]
Str(s) == [k |-> "str", s |-> s]
Num(n) == [k |-> "num", n |-> n]
List(xs) == [k |-> "list", xs |-> xs]

\* 1.0 in fixed point: 1000 is the divisor of line 251; 36 keeps k/n (n <= 3)
\* and the mean of up to three sources exact.
Unit == 1000 * 36

\* dict.get(key, default)
Get(d, key, default) == IF key \in DOMAIN d THEN d[key] ELSE default

\* d[key] = v on a dict held as a function
Put(d, key, v) == [x \in DOMAIN d \cup {key} |-> IF x = key THEN v ELSE d[x]]

EmptyMap == [x \in {} |-> 0]

\* a normally returned value / a raised exception
Ok(v) == [exc |-> FALSE, val |-> v]
Raise(e) == [exc |-> TRUE, val |-> e]

(***************************************************************************)
(* str operations.                                                         *)
(***************************************************************************)
\* s.startswith(prefix)
StartsWith(s, prefix) ==
    /\ Len(prefix) <= Len(s)
    /\ SubSeq(s, 1, Len(prefix)) = prefix

\* sub in s
IsSubstring(sub, s) ==
    \E i \in 0..Len(s) :
        /\ i + Len(sub) <= Len(s)
        /\ SubSeq(s, i + 1, i + Len(sub)) = sub

\* str.lower(): upper-case symbols of the model and their lower-case forms
LowerTable == [x \in {"REFUND", "PAYMENT"} |->
                 IF x = "REFUND" THEN "refund" ELSE "payment"]
Lower(s) == [i \in 1..Len(s) |->
               IF s[i] \in DOMAIN LowerTable THEN LowerTable[s[i]] ELSE s[i]]

\* float(x): the numerals of the model and their values
NumeralValue == [x \in {"5", "10"} |-> IF x = "5" THEN 5 ELSE 10]
IsNumeric(v) ==
    \/ v.k = "num"
    \/ v.k = "str" /\ Len(v.s) = 1 /\ v.s[1] \in DOMAIN NumeralValue
ToFloat(v) == IF v.k = "num" THEN v.n ELSE NumeralValue[v.s[1]]

\* re.compile(pattern) succeeds: "(" is an unbalanced parenthesis
ValidRegex(p) == \A i \in 1..Len(p) : p[i] # "("

\* re.match(pattern, s): anchored at the start only; "." is any symbol and
\* ".*" any run of symbols
RECURSIVE re_match(_, _)
re_match(p, s) ==
    IF p = <<>> THEN TRUE
    ELSE IF Head(p) = ".*"
         THEN \E i \in 0..Len(s) : re_match(Tail(p), SubSeq(s, i + 1, Len(s)))
         ELSE /\ s # <<>>
              /\ (Head(p) = "." \/ Head(p) = Head(s))
              /\ re_match(Tail(p), Tail(s))

(***************************************************************************)
(* Rule evaluation (main.py 378-426).                                      *)
(***************************************************************************)
match_value(actual, operator, expected) ==
    IF actual = None THEN Ok(FALSE)
    ELSE CASE operator = "equals" -> Ok(actual = expected)
           [] operator = "matches" ->
                IF expected.k = "str" /\ ValidRegex(expected.s)
                THEN Ok(re_match(expected.s, actual.s))
                ELSE Raise(IF expected.k = "str" THEN "re.error" ELSE "TypeError")
           [] operator = "contains" ->
                IF expected.k = "str" THEN Ok(IsSubstring(expected.s, actual.s))
                ELSE Raise("TypeError")
           [] operator = "starts" ->
                IF expected.k = "str" THEN Ok(StartsWith(actual.s, expected.s))
                ELSE Raise("TypeError")
           [] operator = "in" ->
                CASE expected.k = "str" -> Ok(IsSubstring(actual.s, expected.s))
                  [] expected.k = "list" ->
                       Ok(\E i \in 1..Len(expected.xs) : expected.xs[i] = actual)
                  [] OTHER -> Raise("TypeError")
           [] operator = "exists" -> Ok(TRUE)
           [] operator = "greater" ->
                IF ~IsNumeric(actual) THEN Raise("ValueError")
                ELSE IF ~IsNumeric(expected)
                     THEN Raise(IF expected.k = "str" THEN "ValueError"
                                ELSE "TypeError")
                     ELSE Ok(ToFloat(actual) > ToFloat(expected))
           [] OTHER -> Ok(FALSE)

evaluate_condition(condition, request) ==
    LET cond_type == Get(condition, "type", "")
        operator == Get(condition, "operator", "")
        value == Get(condition, "value", None)
    IN  CASE cond_type = "path" -> match_value(request.path, operator, value)
          [] cond_type = "method" -> match_value(request.method, operator, value)
          [] cond_type = "header" ->
               LET key == Get(condition, "key", "")
                   header_value == Get(request.headers, key, None)
               IN  match_value(header_value, operator, value)
          [] cond_type = "any" -> Ok(operator = "true")
          [] OTHER -> Ok(FALSE)

\* all(...) over a generator: stops at the first false leaf, and an
\* exception in a leaf that is reached leaves the loop
RECURSIVE all_conditions(_, _)
all_conditions(conds, request) ==
    IF conds = <<>> THEN Ok(TRUE)
    ELSE LET r == evaluate_condition(Head(conds), request)
         IN  IF r.exc THEN r
             ELSE IF ~r.val THEN Ok(FALSE)
             ELSE all_conditions(Tail(conds), request)

\* any(...) over a generator: stops at the first true leaf
RECURSIVE any_condition(_, _)
any_condition(conds, request) ==
    IF conds = <<>> THEN Ok(FALSE)
    ELSE LET r == evaluate_condition(Head(conds), request)
         IN  IF r.exc THEN r
             ELSE IF r.val THEN Ok(TRUE)
             ELSE any_condition(Tail(conds), request)

evaluate_rule_conditions(rule, request) ==
    LET conditions == Get(rule, "conditions", EmptyMap)
    IN  IF "AND" \in DOMAIN conditions THEN all_conditions(conditions["AND"], request)
        ELSE IF "OR" \in DOMAIN conditions THEN any_condition(conditions["OR"], request)
        ELSE Ok(FALSE)

(***************************************************************************)
(* The service catalog (main.py 66-120).                                   *)
(***************************************************************************)
ServiceNames ==
    {"user-authentication-service", "payment-processing-service",
     "email-notification-service", "image-processing-service",
     "data-analytics-service", "pdf-generator-service",
     "websocket-chat-service", "machine-learning-inference-service",
     "scheduled-batch-processor-service", "api-gateway-service"}

ServiceTimeout(name) ==
    CASE name = "user-authentication-service" -> 10000
      [] name = "payment-processing-service" -> 30000
      [] name = "email-notification-service" -> 15000
      [] name = "image-processing-service" -> 120000
      [] name = "data-analytics-service" -> 30000
      [] name = "pdf-generator-service" -> 60000
      [] name = "websocket-chat-service" -> 3600000
      [] name = "machine-learning-inference-service" -> 60000
      [] name = "scheduled-batch-processor-service" -> 1800000
      [] OTHER -> 30000

\* the keys of ServiceRegistry.services in the order of the dict
ServiceOrder ==
    <<"user-authentication-service", "payment-processing-service",
      "email-notification-service", "image-processing-service",
      "data-analytics-service", "pdf-generator-service",
      "websocket-chat-service", "machine-learning-inference-service",
      "scheduled-batch-processor-service", "api-gateway-service">>

\* what the GET of a health URL does: a status, a transport error, a timeout
ProbeOutcomes == {"200", "503", "error", "timeout"}

\* ServiceRegistry.services
services == [name \in ServiceNames |-> [timeout |-> ServiceTimeout(name)]]

(***************************************************************************)
(* Score sources (main.py 217-279).                                        *)
(***************************************************************************)
\* Python truthiness of an Optional[str]
Truthy(v) == v.k = "str" /\ Len(v.s) > 0

\* the loop with `scores.setdefault(service, priority / 1000.0)`: the first
\* matching rule of a service stays
RECURSIVE rules_loop_first_stays(_, _, _)
rules_loop_first_stays(rules, request, scores) ==
    IF rules = <<>> THEN Ok(scores)
    ELSE LET rule == Head(rules)
             r == evaluate_rule_conditions(rule, request)
         IN  IF r.exc THEN r
             ELSE IF r.val /\ rule.actions.route \notin DOMAIN scores
                  THEN LET service == rule.actions.route
                           priority == Get(rule.actions, "priority", 100)
                       IN  rules_loop_first_stays(Tail(rules), request,
                                                  Put(scores, service,
                                                      Num((priority * Unit) \div 1000)))
                  ELSE rules_loop_first_stays(Tail(rules), request, scores)

RECURSIVE rules_loop(_, _, _)
rules_loop(rules, request, scores) ==
    IF rules = <<>> THEN Ok(scores)
    ELSE LET rule == Head(rules)
             r == evaluate_rule_conditions(rule, request)
         IN  IF r.exc THEN r
             ELSE IF r.val
                  THEN LET service == rule.actions.route
                           priority == Get(rule.actions, "priority", 100)
                       IN  rules_loop(Tail(rules), request,
                                      Put(scores, service,
                                          Num((priority * Unit) \div 1000)))
                  ELSE rules_loop(Tail(rules), request, scores)

apply_routing_rules(routing_rules, request) ==
    rules_loop(Get(routing_rules, "rules", <<>>), request, EmptyMap)

\* for pattern in config['patterns']: if re.match(pattern, path): ...; break
RECURSIVE patterns_loop(_, _)
patterns_loop(patterns, path) ==
    IF patterns = <<>> THEN Ok(FALSE)
    ELSE IF ~ValidRegex(Head(patterns)) THEN Raise("re.error")
    ELSE IF re_match(Head(patterns), path) THEN Ok(TRUE)
    ELSE patterns_loop(Tail(patterns), path)

Max(a, b) == IF a >= b THEN a ELSE b

\* the score of one category: Ok(score) or an exception
category_score(config, request) ==
    LET keywords == Get(config, "keywords", <<>>)
        patterns == Get(config, "patterns", <<>>)
        text_lower == Lower(request.text.s)
        matching_keywords ==
            Cardinality({i \in 1..Len(keywords) : IsSubstring(keywords[i], text_lower)})
        kw_score ==
            IF Truthy(request.text) /\ keywords # <<>> /\ matching_keywords > 0
            THEN (matching_keywords * Unit) \div Len(keywords)
            ELSE 0
    IN  IF Truthy(request.path) /\ patterns # <<>>
        THEN LET m == patterns_loop(patterns, request.path.s)
             IN  IF m.exc THEN m
                 ELSE IF m.val THEN Ok(Max(kw_score, (8 * Unit) \div 10))
                 ELSE Ok(kw_score)
        ELSE Ok(kw_score)

\* the loop with `scores[target] = max(scores.get(target, 0.0), score)`
RECURSIVE categories_loop_max(_, _, _)
categories_loop_max(categories, request, scores) ==
    IF categories = <<>> THEN Ok(scores)
    ELSE LET config == Head(categories).config
             r == category_score(config, request)
             existing == Get(scores, config.targetService, Num(0)).n
         IN  IF r.exc THEN r
             ELSE IF r.val > 0
                  THEN categories_loop_max(Tail(categories), request,
                                           Put(scores, config.targetService,
                                               Num(Max(existing, r.val))))
                  ELSE categories_loop_max(Tail(categories), request, scores)

RECURSIVE categories_loop(_, _, _)
categories_loop(categories, request, scores) ==
    IF categories = <<>> THEN Ok(scores)
    ELSE LET config == Head(categories).config
             r == category_score(config, request)
         IN  IF r.exc THEN r
             ELSE IF r.val > 0
                  THEN categories_loop(Tail(categories), request,
                                       Put(scores, config.targetService, Num(r.val)))
                  ELSE categories_loop(Tail(categories), request, scores)

match_patterns(meta_routing_config, request) ==
    categories_loop(Get(meta_routing_config, "intentCategories", <<>>),
                    request, EmptyMap)

\* {r['label']: r['score'] for r in results}: Ok(map), or the exception of
\* an entry without a label or a score
RECURSIVE label_scores(_, _)
label_scores(results, acc) ==
    IF results = <<>> THEN Ok(acc)
    ELSE LET r == Head(results)
         IN  IF "label" \notin DOMAIN r \/ "score" \notin DOMAIN r
             THEN Raise("KeyError")
             ELSE label_scores(Tail(results), Put(acc, r.label, r.score))

\* classifier: what intent_classifier(text) does in this call
ml_classify(text, classifier) ==
    IF classifier.raises THEN EmptyMap
    ELSE IF classifier.results.k # "list" THEN EmptyMap
    ELSE LET m == label_scores(classifier.results.xs, EmptyMap)
         IN  IF m.exc THEN EmptyMap ELSE m.val

\* the dict scores as the list of its items, in insertion order
calculate_intent_scores(request, has_classifier, classifier, meta_routing_config, routing_rules) ==
    LET ml == IF Truthy(request.text) /\ has_classifier
              THEN <<[type |-> "ml", scores |-> ml_classify(request.text, classifier)]>>
              ELSE <<>>
        rule_scores == apply_routing_rules(routing_rules, request)
        pattern_scores == match_patterns(meta_routing_config, request)
    IN  IF rule_scores.exc THEN rule_scores
        ELSE IF pattern_scores.exc THEN pattern_scores
        ELSE Ok(ml \o <<[type |-> "rules", scores |-> rule_scores.val],
                        [type |-> "patterns", scores |-> pattern_scores.val]>>)

(***************************************************************************)
(* Contextual factors (main.py 281-318).                                   *)
(***************************************************************************)
\* hour: datetime.utcnow().hour of this call
calculate_factor_score(factor_name, request, config, hour) ==
    LET base_score ==
            IF factor_name = "userProfile" /\ "userId" \in DOMAIN request.context
            THEN (7 * Unit) \div 10
            ELSE IF factor_name = "requestMetadata" /\ DOMAIN request.headers # {}
            THEN (6 * Unit) \div 10
            ELSE IF factor_name = "systemState" THEN (8 * Unit) \div 10
            ELSE IF factor_name = "temporalContext"
            THEN IF 9 <= hour /\ hour <= 17 THEN (9 * Unit) \div 10
                 ELSE (4 * Unit) \div 10
            ELSE IF factor_name = "businessLogic" THEN (75 * Unit) \div 100
            ELSE (5 * Unit) \div 10
    IN  (base_score * Get(config, "weight", Unit)) \div Unit

\* the inner loop with `count += 1` outside the `if`: every source counts
RECURSIVE service_sum_over_all(_, _, _, _)
service_sum_over_all(intent_scores, service, service_score, count) ==
    IF intent_scores = <<>> THEN Ok([sum |-> service_score, count |-> count])
    ELSE LET scores == Head(intent_scores).scores
         IN  IF service \in DOMAIN scores
             THEN IF scores[service].k # "num" THEN Raise("TypeError")
                  ELSE service_sum_over_all(Tail(intent_scores), service,
                                            service_score + scores[service].n,
                                            count + 1)
             ELSE service_sum_over_all(Tail(intent_scores), service,
                                       service_score, count + 1)

\* the sum and the count of one service over the sources, in order
RECURSIVE service_sum(_, _, _, _)
service_sum(intent_scores, service, service_score, count) ==
    IF intent_scores = <<>> THEN Ok([sum |-> service_score, count |-> count])
    ELSE LET scores == Head(intent_scores).scores
         IN  IF service \in DOMAIN scores
             THEN IF scores[service].k # "num" THEN Raise("TypeError")
                  ELSE service_sum(Tail(intent_scores), service,
                                   service_score + scores[service].n, count + 1)
             ELSE service_sum(Tail(intent_scores), service, service_score, count)

all_services(intent_scores) ==
    UNION {DOMAIN intent_scores[i].scores : i \in 1..Len(intent_scores)}

\* _combine_scores that blends the factors in: every combined score weighted
\* by the factors' sum
combine_scores_blended(intent_scores, factors) ==
    LET total(service) == service_sum(intent_scores, service, 0, 0)
        RECURSIVE sum_of(_)
        sum_of(names) ==
            IF names = {} THEN 0
            ELSE LET name == CHOOSE n \in names : TRUE
                 IN  factors[name] + sum_of(names \ {name})
        blend == Unit + sum_of(DOMAIN factors)
    IN  IF \E service \in all_services(intent_scores) : total(service).exc
        THEN Raise("TypeError")
        ELSE Ok([service \in {s \in all_services(intent_scores) :
                                 total(s).val.count > 0} |->
                    ((total(service).val.sum \div total(service).val.count)
                        * blend) \div Unit])

combine_scores(intent_scores, factors) ==
    LET total(service) == service_sum(intent_scores, service, 0, 0)
    IN  IF \E service \in all_services(intent_scores) : total(service).exc
        THEN Raise("TypeError")
        ELSE Ok([service \in {s \in all_services(intent_scores) :
                                 total(s).val.count > 0} |->
                    total(service).val.sum \div total(service).val.count])

apply_contextual_factors(request, intent_scores, meta_routing_config, hour) ==
    LET configured == Get(meta_routing_config, "contextualFactors", EmptyMap)
        factors == [factor_name \in DOMAIN configured |->
                      calculate_factor_score(factor_name, request,
                                             configured[factor_name], hour)]
        combined_scores == combine_scores(intent_scores, factors)
    IN  IF combined_scores.exc THEN combined_scores
        ELSE Ok([scores |-> combined_scores.val, factors |-> factors])

(***************************************************************************)
(* Selection (main.py 343-376).                                            *)
(***************************************************************************)
FallbackService == "api-gateway-service"

\* the index of the first category whose targetService is best_service; 0 if none
first_category(categories, best_service) ==
    LET hits == {i \in 1..Len(categories) :
                    Get(categories[i].config, "targetService", "") = best_service}
    IN  IF hits = {} THEN 0 ELSE CHOOSE i \in hits : \A j \in hits : i <= j

\* max(scores, key=scores.get) returns the first maximal key in the
\* iteration order of the dict, which is the iteration order of a set of
\* str: any maximal key
best_services(scores) ==
    {s \in DOMAIN scores : \A t \in DOMAIN scores : scores[t] <= scores[s]}

\* the returned dict and intentCategories once the call has run, for the
\* maximal key best_service; the dict returned for a declared category is the
\* configuration's own dict, which the call writes 'category' and
\* 'confidence' into
select_for(scores, categories, best_service) ==
    LET confidence == scores[best_service]
        i == first_category(categories, best_service)
    IN  IF i = 0
        THEN [best |-> [category |-> "unknown", targetService |-> best_service,
                        priority |-> 100, confidence |-> confidence],
              categories |-> categories]
        ELSE LET category_info ==
                     Put(Put(categories[i].config, "category", categories[i].name),
                         "confidence", confidence)
             IN  [best |-> category_info,
                  categories |-> [categories EXCEPT ![i].config = category_info]]

\* _select_best_intent whose empty case returns the dict of lines 367-371
select_best_intent_unknown(contextual_scores, meta_routing_config) ==
    LET scores == contextual_scores.scores
        categories == Get(meta_routing_config, "intentCategories", <<>>)
    IN  IF DOMAIN scores = {}
        THEN {[best |-> [category |-> "unknown", confidence |-> 0,
                         targetService |-> FallbackService, priority |-> 100],
               categories |-> categories]}
        ELSE {select_for(scores, categories, s) : s \in best_services(scores)}

\* every outcome of _select_best_intent
select_best_intent(contextual_scores, meta_routing_config) ==
    LET scores == contextual_scores.scores
        categories == Get(meta_routing_config, "intentCategories", <<>>)
    IN  IF DOMAIN scores = {}
        THEN {[best |-> [category |-> "general", confidence |-> 0,
                         targetService |-> FallbackService, priority |-> 100],
               categories |-> categories]}
        ELSE {select_for(scores, categories, s) : s \in best_services(scores)}

(***************************************************************************)
(* Result cache and response (main.py 161-215, 428-458).                   *)
(***************************************************************************)
\* key_data with the context in it
generate_cache_key_with_context(request) ==
    [text |-> request.text, path |-> request.path,
     method |-> request.method, headers |-> request.headers,
     context |-> request.context]

\* md5 of the canonical JSON of the four fields: the fields themselves
generate_cache_key(request) ==
    [text |-> request.text, path |-> request.path,
     method |-> request.method, headers |-> request.headers]

\* routingStrategies.caching.ttl of line 455
DefaultTTL == 300
cache_ttl(meta_routing_config) ==
    Get(Get(Get(meta_routing_config, "routingStrategies", EmptyMap),
            "caching", EmptyMap), "ttl", DefaultTTL)

NoEntry == [live |-> FALSE]

\* what redis_client.get and json.loads do in one read: "ok" reads the store,
\* "io_error" raises, "undecodable" is data json.loads rejects, "empty_doc" is
\* the stored document {} and "foreign_doc" a stored document that is not a
\* result of this program
ReadOutcomes == {"ok", "io_error", "undecodable", "empty_doc", "foreign_doc"}

\* what redis_client.setex does in one write
WriteOutcomes == {"ok", "io_error"}

ForeignDoc == [intentId |-> "foreign"]

\* _get_from_cache: the decoded document, or None
get_from_cache(has_redis, store, time, key, outcome) ==
    IF ~has_redis THEN None
    ELSE CASE outcome = "ok" ->
                IF store[key].live /\ time < store[key].expires
                THEN store[key].doc ELSE None
           [] outcome = "empty_doc" -> EmptyMap
           [] outcome = "foreign_doc" -> ForeignDoc
           [] OTHER -> None

\* if cached_result:
IsHit(cached_result) == cached_result # None /\ DOMAIN cached_result # {}

\* lines 170-172: Ok(the document with metadata.cacheHit = True), or KeyError
cache_hit_result(cached_result) ==
    IF "metadata" \notin DOMAIN cached_result THEN Raise("KeyError")
    ELSE Ok([cached_result EXCEPT !.metadata.cacheHit = TRUE])

\* lines 186-206
build_response(intent_id, best_intent, meta_routing_config, factors, processing_time) ==
    [intentId |-> intent_id,
     recognizedIntent |->
        [category |-> best_intent.category,
         confidence |-> best_intent.confidence,
         keywords |-> Get(best_intent, "keywords", <<>>),
         mlModel |-> Get(best_intent, "mlModel", None)],
     routing |->
        [targetService |-> best_intent.targetService,
         priority |-> Get(best_intent, "priority", 100),
         strategy |-> Get(Get(meta_routing_config, "metaRoutingEngine", EmptyMap),
                          "algorithmType", "ml-enhanced"),
         timeout |-> Get(Get(services, best_intent.targetService, EmptyMap),
                         "timeout", 30000)],
     metadata |->
        [processingTime |-> processing_time, cacheHit |-> FALSE,
         modelVersion |-> "v1.0.0"],
     contextualFactors |-> factors]

\* lines 176-206 on a cache miss: every outcome, each with the response or
\* the exception, the score maps and intentCategories as the call leaves them
classify_fresh(request, has_classifier, classifier, hour, meta_routing_config, routing_rules, intent_id, processing_time) ==
    LET intent_scores ==
            calculate_intent_scores(request, has_classifier, classifier,
                                    meta_routing_config, routing_rules)
        contextual_scores ==
            apply_contextual_factors(request, intent_scores.val,
                                     meta_routing_config, hour)
        failed(e, sources) == {[result |-> e, config |-> meta_routing_config,
                                sources |-> sources]}
    IN  IF intent_scores.exc THEN failed(intent_scores, <<>>)
        ELSE IF contextual_scores.exc
        THEN failed(contextual_scores, intent_scores.val)
        ELSE {[result |->
                  Ok(build_response(intent_id, sel.best, meta_routing_config,
                                    contextual_scores.val.factors, processing_time)),
               config |->
                  IF "intentCategories" \in DOMAIN meta_routing_config
                  THEN [meta_routing_config EXCEPT !.intentCategories = sel.categories]
                  ELSE meta_routing_config,
               sources |-> intent_scores.val] :
              sel \in select_best_intent(contextual_scores.val, meta_routing_config)}

(***************************************************************************)
(* Circuit breaker of /route (main.py 563): circuit(failure_threshold=5,   *)
(* recovery_timeout=30, expected_exception=Exception) of the               *)
(* circuitbreaker package wraps the coroutine.  The wrapper raises         *)
(* CircuitBreakerError when the breaker is open as the call enters, and    *)
(* otherwise awaits the handler and counts the way it ends.                *)
(***************************************************************************)
\* circuit(failure_threshold=6, ...)
failure_threshold_six == 5 + 1
FailureThreshold == 5
RecoveryTimeout == 30

\* CircuitBreaker.state: an open breaker whose recovery window has elapsed
\* reads as half-open
breaker_state(b, time) ==
    IF b.state = "open" /\ time >= b.opened + RecoveryTimeout
    THEN "half_open" ELSE b.state

\* CircuitBreaker.opened
breaker_opened(b, time) == breaker_state(b, time) = "open"

\* the handler raised an Exception
call_failed(b, time) ==
    IF b.failure_count + 1 >= FailureThreshold
    THEN [state |-> "open", failure_count |-> b.failure_count + 1, opened |-> time]
    ELSE [b EXCEPT !.failure_count = b.failure_count + 1]

\* the handler returned
call_succeeded(b) == [state |-> "closed", failure_count |-> 0, opened |-> b.opened]

(***************************************************************************)
(* Configurations, requests and classifier outcomes of the model.          *)
(***************************************************************************)
PaymentService == "payment-processing-service"
AnalyticsService == "data-analytics-service"
\* a service name of the configuration that the catalog does not hold
LegacyService == "legacy-billing-service"

CountRule ==
    [conditions |->
        [OR |-> <<[type |-> "header", key |-> "x-count", operator |-> "greater",
                   value |-> Str(<<"5">>)],
                  [type |-> "method", operator |-> "equals",
                   value |-> Str(<<"DELETE">>)]>>],
     actions |-> [route |-> AnalyticsService]]

PayRule ==
    [conditions |->
        [AND |-> <<[type |-> "path", operator |-> "starts",
                    value |-> Str(<<"/pay">>)]>>],
     actions |-> [route |-> PaymentService, priority |-> 900]]

LegacyRule ==
    [conditions |->
        [AND |-> <<[type |-> "path", operator |-> "starts",
                    value |-> Str(<<"/legacy">>)]>>],
     actions |-> [route |-> LegacyService, priority |-> 500]]

PaymentCategory ==
    [name |-> "payment",
     config |-> [targetService |-> PaymentService,
                 keywords |-> <<(<<"refund">>), (<<"payment">>)>>,
                 patterns |-> <<(<<"/pay", ".*">>)>>,
                 priority |-> 200,
                 mlModel |-> Str(<<"payment-intent">>)]]

\* /config/meta-routing.json and /config/routing-rules.json
FileConfig ==
    [meta |-> [intentCategories |-> <<PaymentCategory>>,
               contextualFactors |-> [userProfile |-> [weight |-> Unit],
                                      requestMetadata |-> EmptyMap],
               routingStrategies |-> [caching |-> [ttl |-> 30]]],
     rules |-> [rules |-> <<CountRule, PayRule, LegacyRule>>]]

\* the files of /config once edited: /pay is routed to data-analytics-service
ReloadedConfig ==
    [meta |-> FileConfig.meta,
     rules |-> [rules |-> <<CountRule,
                            [PayRule EXCEPT !.actions.route = AnalyticsService],
                            LegacyRule>>]]

\* META_ROUTING_CONFIG and ROUTING_RULES of lines 40-41 with the environment unset
EnvConfig == [meta |-> EmptyMap, rules |-> EmptyMap]

Configs == {FileConfig, EnvConfig}

\* what load_configuration can find: the files as they were, the files
\* edited, or no readable files (lines 157-159)
LoadableConfigs == {FileConfig, ReloadedConfig, EnvConfig}

NoHeaders == [x \in {} |-> None]

Request(text, path, method, headers, context) ==
    [text |-> text, path |-> path, method |-> method, headers |-> headers,
     body |-> None, context |-> context]

PayRequest ==
    Request(None, Str(<<"/pay", "/checkout">>), Str(<<"POST">>), NoHeaders, EmptyMap)
RefundRequest ==
    Request(Str(<<"need", "a", "REFUND">>), None, Str(<<"GET">>), NoHeaders, EmptyMap)
EmptyRequest ==
    Request(None, None, Str(<<"GET">>), NoHeaders, EmptyMap)
LegacyRequest ==
    Request(None, Str(<<"/legacy", "/invoice">>), Str(<<"GET">>), NoHeaders, EmptyMap)
\* PayRequest sent with a body and a context
PayUserRequest ==
    [Request(None, Str(<<"/pay", "/checkout">>), Str(<<"POST">>), NoHeaders,
             [x \in {"userId"} |-> Str(<<"u1">>)])
        EXCEPT !.body = Str(<<"{}">>)]
\* a request CountRule routes to data-analytics-service
DeleteRequest ==
    Request(None, Str(<<"/reports">>), Str(<<"DELETE">>), NoHeaders, EmptyMap)
BadCountRequest ==
    Request(None, Str(<<"/pay", "/checkout">>), Str(<<"POST">>),
            [x \in {"x-count"} |-> Str(<<"many">>)], EmptyMap)

\* bodies of POST /intent/recognize
Requests == {PayRequest, RefundRequest, EmptyRequest, LegacyRequest, BadCountRequest}

\* requests POST /route builds from the inbound request: no text, no context
RouteRequests == {PayRequest, LegacyRequest}

Keys == {generate_cache_key(r) : r \in Requests \cup {PayUserRequest, DeleteRequest}}

\* what intent_classifier(text) does in one call
ClassifierRaises == [raises |-> TRUE, results |-> None]
ClassifierReturns(results) == [raises |-> FALSE, results |-> results]
ClassifierOutcomes ==
    {ClassifierRaises,
     ClassifierReturns(None),
     ClassifierReturns(List(<<[label |-> PaymentService,
                               score |-> Num((9 * Unit) \div 10)]>>)),
     ClassifierReturns(List(<<[label |-> "billing"]>>)),
     ClassifierReturns(List(<<[label |-> "billing", score |-> Num(Unit)]>>)),
     ClassifierReturns(List(<<[label |-> PaymentService,
                               score |-> Str(<<"high">>)]>>))}

\* datetime.utcnow().hour of a call
Hours == {3, 12}

(***************************************************************************)
(* State.                                                                  *)
(***************************************************************************)
Procs == {1, 2}

VARIABLES
    meta_routing_config,  \* IntentRecognitionEngine.meta_routing_config
    routing_rules,        \* IntentRecognitionEngine.routing_rules
    redis_client,         \* the module global: TRUE once startup has set it
    intent_classifier,    \* the module global: TRUE once startup has set it
    cache,                \* the Redis store: key -> entry
    now,                  \* the clock, in seconds
    next_id,              \* the uuid4 values drawn so far
    breaker,              \* the CircuitBreaker of route_request
    pc,                   \* where each request handler is
    call,                 \* the call each handler is serving
    response,             \* the response dict a handler holds
    ret,                  \* what the handler returned or raised
    calls,                \* calls started so far
    budget,               \* calls the clients start in this behaviour
    clients,              \* the handlers that serve calls in this behaviour
    workload,             \* the requests the clients send in this behaviour
    store_faults,         \* whether Redis may fail or hold foreign data in
                          \* this behaviour
    health_status,        \* ServiceRegistry.health_status
    health_loop,          \* where health_check_loop is
    reader,               \* the handler of GET /health/services and /health/ready
    probes,               \* what the health URLs do in this behaviour
    fn_in,                \* the arguments of a function applied on its own
    fn_out,               \* what that function returned
    last_ok,              \* history, per key: the call that returned last
                          \* returned the entry the store holds
    failures,             \* history: /route calls that raised since the last
                          \* one that returned
    failed                \* history: the services the /route calls that
                          \* raised were routed to

vars == <<meta_routing_config, routing_rules, redis_client, intent_classifier,
          cache, now, next_id, breaker, pc, call, response, ret, calls,
          budget, clients, workload, store_faults, health_status, health_loop,
          reader, probes, fn_in, fn_out, last_ok, failures, failed>>

settings == <<meta_routing_config, routing_rules, redis_client, intent_classifier,
              budget, clients, workload, store_faults, probes>>

server == <<settings, health_status, health_loop, reader>>

serving == <<cache, now, next_id, breaker, pc, call, response, ret, calls,
             last_ok, failures, failed>>

engine == <<server, fn_in, fn_out>>

NoCall == [endpoint |-> "none"]
NoResponse == [intentId |-> 0]
NoRet == [exc |-> FALSE, val |-> None]
NoLast == [id |-> 0]
NoWriter == [text |-> "none"]
IdleReader == [pc |-> "idle"]
NoInput == [fn |-> "none"]
NoOutput == [fn |-> "none"]

InitServer(handlers, requests, n, configs, redis, classifiers, faults) ==
    /\ budget = n
    /\ store_faults = faults
    /\ clients = handlers
    /\ workload = requests
    /\ \E c \in configs :
          /\ meta_routing_config = c.meta
          /\ routing_rules = c.rules
    /\ redis_client \in redis
    /\ intent_classifier \in classifiers
    /\ cache = [key \in Keys |-> NoEntry]
    /\ now = 0
    /\ next_id = 0
    /\ breaker = [state |-> "closed", failure_count |-> 0, opened |-> 0]
    /\ pc = [p \in Procs |-> "idle"]
    /\ call = [p \in Procs |-> NoCall]
    /\ response = [p \in Procs |-> NoResponse]
    /\ ret = [p \in Procs |-> NoRet]
    /\ calls = 0
    /\ last_ok = [key \in Keys |-> FALSE]
    /\ failures = 0
    /\ failed = {}
    /\ health_status = EmptyMap
    /\ health_loop = [pc |-> "probe", index |-> 1, cycle |-> 1, done |-> FALSE,
                      wrote |-> "none", outcome |-> "none"]
    /\ reader = IdleReader

InitState(handlers, requests, n, configs, classifiers, faults) ==
    /\ fn_in = NoInput
    /\ fn_out = NoOutput
    /\ probes = ProbeOutcomes
    /\ InitServer(handlers, requests, n, configs, BOOLEAN, classifiers, faults)

\* a server that serves no call, for the functions applied on their own
InitIdle ==
    /\ probes = ProbeOutcomes
    /\ InitServer({}, {}, 0, {EnvConfig}, {FALSE}, {FALSE}, FALSE)

\* two handlers race on two fingerprints
Init == InitState(Procs, {PayRequest, EmptyRequest}, MaxCalls, {FileConfig}, {FALSE}, TRUE)

\* two handlers serve POST /route
InitRoute == InitState(Procs, RouteRequests, MaxRouteCalls, {FileConfig}, {FALSE}, FALSE)

\* one handler serves two requests that differ in context only
InitContext == InitState({1}, {PayRequest, PayUserRequest}, MaxCalls, {FileConfig}, {FALSE}, FALSE)

\* one handler serves POST /route for two services of the catalog
InitBreaker == InitState({1}, {PayRequest, DeleteRequest}, MaxBreakerCalls, {FileConfig}, {FALSE}, FALSE)

\* one handler serves POST /route for a service outside the catalog, for a
\* request whose classification raises, and for a service of the catalog
InitRouteErrors == InitState({1}, {PayRequest, LegacyRequest, BadCountRequest}, MaxBreakerCalls, {FileConfig}, {FALSE}, FALSE)

\* two handlers serve one fingerprint while the configuration is reloaded
InitReload == InitState(Procs, {PayRequest}, MaxCalls, {FileConfig}, {FALSE}, FALSE)

\* one handler serves every request of the model
InitEngine == InitState({1}, Requests, MaxEngineCalls, Configs, BOOLEAN, TRUE)

\* history: the decision the latest call for `key` returned, while the store
\* holds it
Prior(key) ==
    IF last_ok[key] /\ cache[key].live
    THEN [id |-> cache[key].doc.intentId, expires |-> cache[key].expires]
    ELSE NoLast

\* the inputs a call draws: no read without a Redis client (line 443), no
\* classifier call without text and classifier (line 221), no clock read
\* without the temporalContext factor (line 308)
ReadsOf(has_redis, faults) ==
    IF ~has_redis THEN {"io_error"} ELSE IF faults THEN ReadOutcomes ELSE {"ok"}
WritesOf(faults) == IF faults THEN WriteOutcomes ELSE {"ok"}
ClassifierOf(request, has_classifier) ==
    IF Truthy(request.text) /\ has_classifier
    THEN ClassifierOutcomes ELSE {ClassifierRaises}
HoursOf(config) ==
    IF "temporalContext" \in DOMAIN Get(config, "contextualFactors", EmptyMap)
    THEN Hours ELSE {12}

\* (time.time() - start_time) * 1000 of line 201: a call takes less than
\* the clock of the model resolves
ProcessingTime == 0 * 1000

\* a handler starts serving `request`
StartCall(p, endpoint, request) ==
    /\ pc' = [pc EXCEPT ![p] = "get"]
    /\ call' = [call EXCEPT ![p] =
                  [endpoint |-> endpoint, request |-> request,
                   entered |-> breaker_state(breaker, now),
                   prior |-> Prior(generate_cache_key(request))]]
    /\ calls' = calls + 1

\* POST /intent/recognize (lines 489-496) up to the first await
Recognize(p) ==
    /\ p \in clients
    /\ pc[p] = "idle"
    /\ calls < budget
    /\ \E request \in workload : StartCall(p, "recognize", request)
    /\ UNCHANGED <<engine, cache, now, next_id, breaker, response, ret,
                   last_ok, failures, failed>>

\* history: the call returned the entry the store holds under `key`
ReturnedStored(key, result, store) ==
    /\ ~result.exc
    /\ "intentId" \in DOMAIN result.val
    /\ store[key].live
    /\ store[key].doc.intentId = result.val.intentId

\* the handler behind circuit(expected_exception=ClientError): the 503 of
\* line 581 passes the breaker uncounted
complete_http_uncounted(p, c, result, store) ==
    LET cs == [call EXCEPT ![p] = c]
        key == generate_cache_key(c.request)
    IN  /\ last_ok' = [last_ok EXCEPT ![key] = ReturnedStored(key, result, store)]
        /\ IF c.endpoint = "recognize"
           THEN /\ pc' = [pc EXCEPT ![p] = "done"]
                /\ ret' = [ret EXCEPT ![p] = result]
                /\ response' = [response EXCEPT ![p] = NoResponse]
                /\ call' = cs
                /\ UNCHANGED <<breaker, failures, failed>>
           ELSE IF result.exc
           THEN /\ pc' = [pc EXCEPT ![p] = "done"]
                /\ ret' = [ret EXCEPT ![p] = result]
                /\ response' = [response EXCEPT ![p] = NoResponse]
                /\ call' = cs
                /\ breaker' = call_failed(breaker, now)
                /\ failures' = failures + 1
                /\ failed' = failed \cup {"none"}
           ELSE IF result.val.routing.targetService \notin DOMAIN services
           THEN /\ pc' = [pc EXCEPT ![p] = "done"]
                /\ ret' = [ret EXCEPT ![p] = Raise("HTTPException 503")]
                /\ response' = [response EXCEPT ![p] = NoResponse]
                /\ call' = cs
                /\ UNCHANGED <<breaker, failures, failed>>
           ELSE /\ pc' = [pc EXCEPT ![p] = "fwd"]
                /\ ret' = ret
                /\ response' = [response EXCEPT ![p] = result.val]
                /\ call' = [cs EXCEPT ![p].attempted = TRUE]
                /\ UNCHANGED <<breaker, failures, failed>>

\* classify_intent has ended with `result` (a response or an exception):
\* the rest of the handler up to its next await (lines 494 and 576-593)
Complete(p, c, result, store) ==
    LET cs == [call EXCEPT ![p] = c]
        key == generate_cache_key(c.request)
    IN  /\ last_ok' = [last_ok EXCEPT ![key] = ReturnedStored(key, result, store)]
        /\ IF c.endpoint = "recognize"
           THEN /\ pc' = [pc EXCEPT ![p] = "done"]
                /\ ret' = [ret EXCEPT ![p] = result]
                /\ response' = [response EXCEPT ![p] = NoResponse]
                /\ call' = cs
                /\ UNCHANGED <<breaker, failures, failed>>
           ELSE IF result.exc
           THEN /\ pc' = [pc EXCEPT ![p] = "done"]
                /\ ret' = [ret EXCEPT ![p] = result]
                /\ response' = [response EXCEPT ![p] = NoResponse]
                /\ call' = cs
                /\ breaker' = call_failed(breaker, now)
                /\ failures' = failures + 1
                /\ failed' = failed \cup {"none"}
           ELSE IF result.val.routing.targetService \notin DOMAIN services
           THEN /\ pc' = [pc EXCEPT ![p] = "done"]
                /\ ret' = [ret EXCEPT ![p] = Raise("HTTPException 503")]
                /\ response' = [response EXCEPT ![p] = NoResponse]
                /\ call' = cs
                /\ breaker' = call_failed(breaker, now)
                /\ failures' = failures + 1
                /\ failed' = failed \cup {result.val.routing.targetService}
           ELSE /\ pc' = [pc EXCEPT ![p] = "fwd"]
                /\ ret' = ret
                /\ response' = [response EXCEPT ![p] = result.val]
                /\ call' = [cs EXCEPT ![p].attempted = TRUE]
                /\ UNCHANGED <<breaker, failures, failed>>

\* the await of _get_from_cache ends (line 168); on a hit the call returns
\* (169-172), on a miss it scores, selects, builds the response (174-206)
\* and, with a Redis client, awaits SETEX (line 456)
CacheGet(p) ==
    /\ pc[p] = "get"
    /\ \E outcome \in ReadsOf(redis_client, store_faults),
          classifier \in ClassifierOf(call[p].request, intent_classifier),
          hour \in HoursOf(meta_routing_config) :
          LET request == call[p].request
              key == generate_cache_key(request)
              cached_result == get_from_cache(redis_client, cache, now, key, outcome)
              after_first ==
                  /\ call[p].prior # NoLast
                  /\ now < call[p].prior.expires
                  /\ redis_client
                  /\ outcome = "ok"
              read(hit, scored, sources, ml) ==
                  [endpoint |-> call[p].endpoint, request |-> request,
                   entered |-> call[p].entered,
                   first |-> IF after_first THEN call[p].prior.id ELSE 0,
                   hit |-> hit, scored |-> scored, sources |-> sources,
                   classifier |-> ml, writer |-> NoWriter,
                   attempted |-> FALSE]
          IN  IF IsHit(cached_result)
              THEN LET result == cache_hit_result(cached_result)
                       c == [read(TRUE, FALSE, <<>>, ClassifierRaises) EXCEPT
                                !.writer = IF outcome = "ok" THEN cache[key].writer
                                           ELSE NoWriter]
                   IN  /\ Complete(p, c, result, cache)
                       /\ UNCHANGED <<meta_routing_config, next_id>>
              ELSE \E fresh \in classify_fresh(request, intent_classifier, classifier,
                                               hour, meta_routing_config, routing_rules,
                                               next_id + 1, ProcessingTime) :
                      LET c == read(FALSE, TRUE, fresh.sources, classifier)
                      IN  /\ meta_routing_config' = fresh.config
                          /\ IF fresh.result.exc
                             THEN /\ Complete(p, c, fresh.result, cache)
                                  /\ UNCHANGED next_id
                             ELSE /\ next_id' = next_id + 1
                                  /\ IF redis_client
                                     THEN /\ pc' = [pc EXCEPT ![p] = "set"]
                                          /\ call' = [call EXCEPT ![p] = c]
                                          /\ response' = [response EXCEPT ![p] = fresh.result.val]
                                          /\ UNCHANGED <<ret, breaker, failures, failed, last_ok>>
                                     ELSE Complete(p, c, fresh.result, cache)
    /\ UNCHANGED <<routing_rules, redis_client, intent_classifier, clients,
                   budget, workload, store_faults, health_status, health_loop,
                   reader, probes, fn_in, fn_out, cache, now, calls>>

\* the await of SETEX ends (line 456): the entry is stored, or the fault is
\* swallowed (457-458); then lines 211-215
CacheSet(p) ==
    /\ pc[p] = "set"
    /\ \E outcome \in WritesOf(store_faults) :
          LET key == generate_cache_key(call[p].request)
              store == IF outcome = "ok"
                       THEN [cache EXCEPT ![key] =
                               [live |-> TRUE, doc |-> response[p],
                                expires |-> now + cache_ttl(meta_routing_config),
                                writer |-> call[p].request]]
                       ELSE cache
          IN  /\ cache' = store
              /\ Complete(p, call[p], Ok(response[p]), store)
    /\ UNCHANGED <<engine, now, next_id, calls>>

\* the services the classification of `request` can select
TargetsOf(request) ==
    {w.result.val.routing.targetService :
        w \in {f \in classify_fresh(request, FALSE, ClassifierRaises, 12,
                                    meta_routing_config, routing_rules, 0,
                                    ProcessingTime) : ~f.result.exc}}

\* /route behind one breaker per downstream service: an open breaker rejects
\* the calls for the services whose calls have failed
route_per_service(p) ==
    /\ p \in clients
    /\ pc[p] = "idle"
    /\ calls < budget
    /\ \E request \in workload :
          IF breaker_opened(breaker, now) /\ TargetsOf(request) \subseteq failed
          THEN /\ pc' = [pc EXCEPT ![p] = "done"]
               /\ ret' = [ret EXCEPT ![p] = Raise("CircuitBreakerError")]
               /\ call' = [call EXCEPT ![p] =
                             [endpoint |-> "route", request |-> request,
                              entered |-> breaker_state(breaker, now),
                              attempted |-> FALSE]]
               /\ calls' = calls + 1
          ELSE /\ StartCall(p, "route", request)
               /\ ret' = ret
    /\ UNCHANGED <<engine, cache, now, next_id, breaker, response, last_ok, failures, failed>>

\* POST /route (lines 562-574) up to the first await of classify_intent: the
\* wrapper of the breaker raises when the breaker is open, without entering
\* the handler
Route(p) ==
    /\ p \in clients
    /\ pc[p] = "idle"
    /\ calls < budget
    /\ \E request \in workload :
          IF breaker_opened(breaker, now)
          THEN /\ pc' = [pc EXCEPT ![p] = "done"]
               /\ ret' = [ret EXCEPT ![p] = Raise("CircuitBreakerError")]
               /\ call' = [call EXCEPT ![p] =
                             [endpoint |-> "route", request |-> request,
                              entered |-> breaker_state(breaker, now),
                              attempted |-> FALSE]]
               /\ calls' = calls + 1
          ELSE /\ StartCall(p, "route", request)
               /\ ret' = ret
    /\ UNCHANGED <<engine, cache, now, next_id, breaker, response, last_ok, failures, failed>>

\* the await of session.request and response.read ends (lines 587-604): the
\* downstream answered, or the transport raised
Forward(p) ==
    /\ pc[p] = "fwd"
    /\ \E outcome \in {"response", "error"} :
          IF outcome = "response"
          THEN /\ ret' = [ret EXCEPT ![p] =
                            Ok([routing |->
                                  [service |-> response[p].routing.targetService,
                                   intentId |-> response[p].intentId]])]
               /\ breaker' = call_succeeded(breaker)
               /\ failures' = 0
               /\ failed' = failed
          ELSE /\ ret' = [ret EXCEPT ![p] = Raise("ClientError")]
               /\ breaker' = call_failed(breaker, now)
               /\ failures' = failures + 1
               /\ failed' = failed \cup {response[p].routing.targetService}
    /\ pc' = [pc EXCEPT ![p] = "done"]
    /\ response' = [response EXCEPT ![p] = NoResponse]
    /\ UNCHANGED <<engine, cache, now, next_id, call, calls, last_ok>>

\* the handler's return reaches the client
Return(p) ==
    /\ pc[p] = "done"
    /\ pc' = [pc EXCEPT ![p] = "idle"]
    /\ call' = [call EXCEPT ![p] = NoCall]
    /\ ret' = [ret EXCEPT ![p] = NoRet]
    /\ UNCHANGED <<engine, cache, now, next_id, breaker, response, calls,
                   last_ok, failures, failed>>

\* RecoveryTimeout seconds pass; Redis drops the entries that have expired
Tick ==
    /\ now < MaxTicks * RecoveryTimeout
    /\ now' = now + RecoveryTimeout
    /\ cache' = [key \in Keys |->
                   IF cache[key].live /\ cache[key].expires <= now'
                   THEN NoEntry ELSE cache[key]]
    /\ UNCHANGED <<engine, next_id, breaker, pc, call, response, ret, calls,
                   last_ok, failures, failed>>

Next ==
    \/ \E p \in Procs : Recognize(p)
    \/ \E p \in Procs : CacheGet(p)
    \/ \E p \in Procs : CacheSet(p)
    \/ \E p \in Procs : Return(p)
    \/ Tick

Spec == Init /\ [][Next]_vars

SpecEngine == InitEngine /\ [][Next]_vars

SpecContext == InitContext /\ [][Next]_vars

NextRoute ==
    \/ \E p \in Procs : Route(p)
    \/ \E p \in Procs : CacheGet(p)
    \/ \E p \in Procs : CacheSet(p)
    \/ \E p \in Procs : Forward(p)
    \/ \E p \in Procs : Return(p)
    \/ Tick

SpecRoute == InitRoute /\ [][NextRoute]_vars

SpecBreaker == InitBreaker /\ [][NextRoute]_vars

\* POST /config/reload with a flush of the result cache after
\* load_configuration
reload_configuration_flushing ==
    /\ clients # {}
    /\ \E c \in LoadableConfigs :
          /\ <<c.meta, c.rules>> # <<meta_routing_config, routing_rules>>
          /\ meta_routing_config' = c.meta
          /\ routing_rules' = c.rules
    /\ cache' = [key \in Keys |-> NoEntry]
    /\ UNCHANGED <<redis_client, intent_classifier, budget, clients, workload,
                   store_faults, probes, health_status, health_loop, reader,
                   fn_in, fn_out, now, next_id, breaker, pc, call,
                   response, ret, calls, last_ok, failures, failed>>

\* POST /config/reload (lines 540-543): load_configuration (151-159) runs
\* without an await and replaces both objects
reload_configuration ==
    /\ clients # {}
    /\ \E c \in LoadableConfigs :
          /\ <<c.meta, c.rules>> # <<meta_routing_config, routing_rules>>
          /\ meta_routing_config' = c.meta
          /\ routing_rules' = c.rules
    /\ UNCHANGED <<redis_client, intent_classifier, budget, clients, workload,
                   store_faults, probes, health_status, health_loop, reader,
                   fn_in, fn_out, cache, now, next_id, breaker, pc, call,
                   response, ret, calls, last_ok, failures, failed>>

NextReload ==
    \/ \E p \in Procs : Recognize(p)
    \/ \E p \in Procs : CacheGet(p)
    \/ \E p \in Procs : CacheSet(p)
    \/ \E p \in Procs : Return(p)
    \/ Tick
    \/ reload_configuration

SpecReload == InitReload /\ [][NextReload]_vars

SpecRouteErrors == InitRouteErrors /\ [][NextRoute]_vars

(***************************************************************************)
(* _evaluate_rule_conditions (main.py 378-386) applied on its own to the   *)
(* rules of up to MaxLeaves leaves.                                        *)
(***************************************************************************)
PayLeaf == [type |-> "path", operator |-> "starts", value |-> Str(<<"/pay">>)]
PostLeaf == [type |-> "method", operator |-> "equals", value |-> Str(<<"POST">>)]
CountLeaf == [type |-> "header", key |-> "x-count", operator |-> "greater",
              value |-> Str(<<"5">>)]
AlwaysLeaf == [type |-> "any", operator |-> "true"]
NeverLeaf == [type |-> "any", operator |-> "false"]
RuleLeaves == {PayLeaf, PostLeaf, CountLeaf, AlwaysLeaf, NeverLeaf}

LeafLists == UNION {[1..n -> RuleLeaves] : n \in 0..MaxLeaves}

RuleSpace ==
    {[conditions |-> [AND |-> l]] : l \in LeafLists}
    \cup {[conditions |-> [OR |-> l]] : l \in LeafLists}
    \cup {[conditions |-> [AND |-> l, OR |-> <<AlwaysLeaf>>]] : l \in LeafLists}
    \cup {[conditions |-> [NOT |-> l]] : l \in LeafLists}
    \cup {[actions |-> [route |-> PaymentService]]}

GoodCountRequest ==
    Request(None, None, Str(<<"GET">>),
            [x \in {"x-count"} |-> Str(<<"10">>)], EmptyMap)

RuleRequests == {PayRequest, BadCountRequest, GoodCountRequest, EmptyRequest}

InitRule ==
    /\ InitIdle
    /\ fn_in \in [fn : {"evaluate_rule_conditions"}, rule : RuleSpace,
                   request : RuleRequests]
    /\ fn_out = NoOutput

EvaluateRule ==
    /\ fn_in.fn = "evaluate_rule_conditions"
    /\ fn_out = NoOutput
    /\ fn_out' = [fn |-> fn_in.fn,
                  result |-> evaluate_rule_conditions(fn_in.rule, fn_in.request)]
    /\ UNCHANGED <<server, fn_in, cache, now, next_id, breaker, pc, call,
                   response, ret, calls, last_ok, failures, failed>>

SpecRule == InitRule /\ [][EvaluateRule]_vars

(***************************************************************************)
(* _combine_scores (main.py 320-341) applied on its own to the score maps  *)
(* of the three sources; the ML map is there when line 221 admits it.      *)
(***************************************************************************)
ScoredServices == {PaymentService, AnalyticsService}
ScoreValues == {Num(0), Num((3 * Unit) \div 10), Num((9 * Unit) \div 10)}
ScoreMaps == UNION {[d -> ScoreValues] : d \in SUBSET ScoredServices}
NoSource == [absent |-> TRUE]

\* the list _calculate_intent_scores builds (lines 221-231)
SourcesOf(in) ==
    (IF in.ml = NoSource THEN <<>> ELSE <<[type |-> "ml", scores |-> in.ml]>>)
    \o <<[type |-> "rules", scores |-> in.rules],
         [type |-> "patterns", scores |-> in.patterns]>>

InitCombine ==
    /\ InitIdle
    /\ fn_in \in [fn : {"combine_scores"}, ml : ScoreMaps \cup {NoSource},
                   rules : ScoreMaps, patterns : ScoreMaps]
    /\ fn_out = NoOutput

CombineScores ==
    /\ fn_in.fn = "combine_scores"
    /\ fn_out = NoOutput
    /\ fn_out' = [fn |-> fn_in.fn,
                  result |-> combine_scores(SourcesOf(fn_in), EmptyMap)]
    /\ UNCHANGED <<server, fn_in, cache, now, next_id, breaker, pc, call,
                   response, ret, calls, last_ok, failures, failed>>

SpecCombine == InitCombine /\ [][CombineScores]_vars

(***************************************************************************)
(* _apply_routing_rules (main.py 244-253) and _match_patterns (255-279)    *)
(* applied on their own to lists of up to MaxRules rules and MaxCategories *)
(* categories.                                                             *)
(***************************************************************************)
RuleChoices ==
    [conditions : {[AND |-> <<>>], [AND |-> <<PayLeaf>>],
                   [OR |-> <<CountLeaf>>], [OR |-> <<>>]},
     actions : {[route |-> r] : r \in ScoredServices}
               \cup {[route |-> r, priority |-> n] :
                        r \in ScoredServices, n \in {900, 200}}]
RuleLists == UNION {[1..n -> RuleChoices] : n \in 0..MaxRules}

CategoryConfigs ==
    [targetService : ScoredServices,
     keywords : {<<>>, <<(<<"refund">>)>>, <<(<<"refund">>), (<<"payment">>)>>},
     patterns : {<<>>, <<(<<"/pay", ".*">>)>>, <<(<<"/legacy">>)>>}]
CategoryLists ==
    UNION {{[i \in 1..n |-> [name |-> <<"first", "second", "third">>[i],
                             config |-> l[i]]] :
              l \in [1..n -> CategoryConfigs]} : n \in 0..MaxCategories}

RefundPayRequest ==
    Request(Str(<<"need", "a", "REFUND">>), Str(<<"/pay", "/checkout">>),
            Str(<<"POST">>), NoHeaders, EmptyMap)

InitSources ==
    /\ InitIdle
    /\ \/ fn_in \in [fn : {"apply_routing_rules"}, rules : RuleLists,
                      request : {PayRequest, GoodCountRequest, BadCountRequest}]
       \/ fn_in \in [fn : {"match_patterns"}, categories : CategoryLists,
                      request : {RefundPayRequest, RefundRequest, PayRequest}]
    /\ fn_out = NoOutput

ApplyRoutingRules ==
    /\ fn_in.fn = "apply_routing_rules"
    /\ fn_out = NoOutput
    /\ fn_out' = [fn |-> fn_in.fn,
                  result |-> apply_routing_rules([rules |-> fn_in.rules],
                                                 fn_in.request)]
    /\ UNCHANGED <<server, fn_in, serving>>

MatchPatterns ==
    /\ fn_in.fn = "match_patterns"
    /\ fn_out = NoOutput
    /\ fn_out' = [fn |-> fn_in.fn,
                  result |-> match_patterns([intentCategories |-> fn_in.categories],
                                            fn_in.request)]
    /\ UNCHANGED <<server, fn_in, serving>>

NextSources ==
    \/ ApplyRoutingRules
    \/ MatchPatterns

SpecSources == InitSources /\ [][NextSources]_vars

(***************************************************************************)
(* The classification of lines 176-206 applied on its own under one set of *)
(* rules and categories, with the contextual factors, the request context  *)
(* and the hour of day drawn.                                              *)
(***************************************************************************)
FactorNames == {"userProfile", "requestMetadata", "temporalContext"}
FactorConfigs ==
    UNION {[names -> {EmptyMap, [weight |-> Unit \div 2]}] :
              names \in SUBSET FactorNames}
FactorRequests ==
    {PayRequest, PayUserRequest, RefundRequest, LegacyRequest, EmptyRequest}
WithFactors(factors) == Put(FileConfig.meta, "contextualFactors", factors)

InitFactors ==
    /\ InitIdle
    /\ fn_in \in [fn : {"classify_intent"}, request : FactorRequests,
                   factors : FactorConfigs, hour : Hours]
    /\ fn_out = NoOutput

ClassifyFresh ==
    /\ fn_in.fn = "classify_intent"
    /\ fn_out = NoOutput
    /\ \E w \in classify_fresh(fn_in.request, FALSE, ClassifierRaises, fn_in.hour,
                                WithFactors(fn_in.factors), FileConfig.rules,
                                0, ProcessingTime) :
          fn_out' = [fn |-> fn_in.fn, result |-> w.result]
    /\ UNCHANGED <<server, fn_in, serving>>

SpecFactors == InitFactors /\ [][ClassifyFresh]_vars

(***************************************************************************)
(* Health checks (main.py 122-141, 484-487, 503-534).  last_checked is the *)
(* parity of the cycle that wrote the entry.                               *)
(***************************************************************************)
\* return response.status < 500, with any answer of a live endpoint healthy
check_health_any_status(outcome) == outcome \in {"200", "503"}

\* check_health of a service of the catalog
check_health(outcome) == outcome = "200"

\* the await of check_health ends and update_health_status writes the entry
\* (lines 137-141); after the last service the loop awaits sleep(30)
HealthProbe ==
    /\ health_loop.pc = "probe"
    /\ \E outcome \in probes :
          LET service_name == ServiceOrder[health_loop.index]
              is_healthy == check_health(outcome)
              last == health_loop.index = Len(ServiceOrder)
          IN  /\ health_status' =
                    Put(health_status, service_name,
                        [status |-> IF is_healthy THEN "healthy" ELSE "unhealthy",
                         last_checked |-> health_loop.cycle])
              /\ health_loop' =
                    [pc |-> IF last THEN "sleep" ELSE "probe",
                     index |-> IF last THEN 1 ELSE health_loop.index + 1,
                     cycle |-> health_loop.cycle,
                     done |-> health_loop.done \/ last,
                     wrote |-> service_name, outcome |-> outcome]
    /\ UNCHANGED <<settings, reader, fn_in, fn_out, serving>>

\* asyncio.sleep(30) ends (line 487) and the next cycle starts
HealthSleep ==
    /\ health_loop.pc = "sleep"
    /\ health_loop' = [health_loop EXCEPT !.pc = "probe",
                                          !.cycle = 1 - health_loop.cycle]
    /\ UNCHANGED <<settings, health_status, reader, fn_in, fn_out, serving>>

\* GET /health/services (lines 503-505)
GetServiceHealth ==
    /\ reader.pc = "idle"
    /\ reader' = [pc |-> "done", endpoint |-> "services",
                  answer |-> health_status]
    /\ UNCHANGED <<settings, health_status, health_loop, fn_in, fn_out, serving>>

\* lines 522-534 of readiness_probe, with the outcome of the ping
ready_answer(redis, status) ==
    LET checks == [redis |-> redis, services |-> DOMAIN status # {}]
    IN  IF checks.redis /\ checks.services
        THEN Ok([status |-> "ready", checks |-> checks])
        ELSE Raise([status_code |-> 503, checks |-> checks])

\* GET /health/ready up to the await of the ping (lines 511-518)
ReadinessProbe ==
    /\ reader.pc = "idle"
    /\ reader' = IF redis_client
                 THEN [pc |-> "ping", endpoint |-> "ready"]
                 ELSE [pc |-> "done", endpoint |-> "ready",
                       answer |-> ready_answer(FALSE, health_status),
                       cycle_done |-> health_loop.done]
    /\ UNCHANGED <<settings, health_status, health_loop, fn_in, fn_out, serving>>

\* the await of redis_client.ping() ends (lines 519-534)
ReadinessPing ==
    /\ reader.pc = "ping"
    /\ \E pong \in BOOLEAN :
          reader' = [pc |-> "done", endpoint |-> "ready",
                     answer |-> ready_answer(pong, health_status),
                     cycle_done |-> health_loop.done]
    /\ UNCHANGED <<settings, health_status, health_loop, fn_in, fn_out, serving>>

\* the answer reaches the client
ReaderReturn ==
    /\ reader.pc = "done"
    /\ reader' = IdleReader
    /\ UNCHANGED <<settings, health_status, health_loop, fn_in, fn_out, serving>>

\* the health URLs all answer 200, or all fail to connect
InitHealth ==
    /\ InitServer({}, {}, 0, {EnvConfig}, BOOLEAN, {FALSE}, FALSE)
    /\ probes \in {{"200"}, {"error"}}
    /\ fn_in = NoInput
    /\ fn_out = NoOutput

NextHealth ==
    \/ HealthProbe
    \/ HealthSleep
    \/ GetServiceHealth
    \/ ReadinessProbe
    \/ ReadinessPing
    \/ ReaderReturn

SpecHealth == InitHealth /\ [][NextHealth]_vars

\* the loop alone, every probe free to end in any way; the event loop runs
\* a task that can run, a probe ends within its timeout and a sleep ends
InitHealthLoop ==
    /\ InitServer({}, {}, 0, {EnvConfig}, {FALSE}, {FALSE}, FALSE)
    /\ probes = ProbeOutcomes
    /\ fn_in = NoInput
    /\ fn_out = NoOutput

NextHealthLoop ==
    \/ HealthProbe
    \/ HealthSleep

SpecHealthLoop ==
    /\ InitHealthLoop
    /\ [][NextHealthLoop]_vars
    /\ WF_vars(HealthProbe)
    /\ WF_vars(HealthSleep)

(***************************************************************************)
(* Properties.                                                             *)
(***************************************************************************)
\* the call of handler p has read the cache
HasRead(p) == "hit" \in DOMAIN call[p]

\* the call of handler p follows, within the TTL and with the store
\* answering, a call for the same fingerprint that returned what it stored
FollowsFirst(p) == HasRead(p) /\ call[p].first # 0

\* C1: a call that starts after a call for the same (text, path, method,
\* headers) has returned, within the cache TTL and with the store
\* reachable, returns the stored decision with cacheHit = true and the
\* intentId the first call returned, without scoring.
C1_SecondCallReturnsFirstDecision ==
    \A p \in Procs :
        pc[p] = "done" /\ FollowsFirst(p) =>
            /\ call[p].hit
            /\ ~call[p].scored
            /\ ~ret[p].exc
            /\ ret[p].val.metadata.cacheHit
            /\ ret[p].val.intentId = call[p].first

C3_SingleProbe ==
    Cardinality({p \in Procs : pc[p] = "fwd" /\ call[p].entered = "half_open"}) <= 1

\* the call of handler p holds the outcome of its classification
HasOutcome(p) == HasRead(p) /\ pc[p] \in {"set", "done"}
OutcomeOf(p) == IF pc[p] = "set" THEN Ok(response[p]) ELSE ret[p]

\* C4: in every result of classify_intent, fresh or from the cache,
\* routing.targetService is a key of the service catalog or the fallback
\* service id.
C4_TargetInCatalog ==
    \A p \in Procs :
        HasOutcome(p) /\ ~OutcomeOf(p).exc =>
            OutcomeOf(p).val.routing.targetService
                \in DOMAIN services \cup {FallbackService}

\* the leaves of the rules, and the request value a leaf reads
LeavesOf(rule) ==
    LET conditions == Get(rule, "conditions", EmptyMap)
        leaves(name) == {conditions[name][i] : i \in 1..Len(Get(conditions, name, <<>>))}
    IN  leaves("AND") \cup leaves("OR")
RulesOf(rules) == {rules.rules[i] : i \in 1..Len(Get(rules, "rules", <<>>))}
OperandOf(leaf, request) ==
    CASE Get(leaf, "type", "") = "path" -> request.path
      [] Get(leaf, "type", "") = "method" -> request.method
      [] Get(leaf, "type", "") = "header" ->
           Get(request.headers, Get(leaf, "key", ""), None)
      [] OTHER -> None
IsGreater(leaf) == Get(leaf, "operator", "") = "greater"
NonNumericGreater(request, rules) ==
    \E rule \in RulesOf(rules) : \E leaf \in LeavesOf(rule) :
        /\ IsGreater(leaf)
        /\ OperandOf(leaf, request) # None
        /\ ~IsNumeric(OperandOf(leaf, request)) \/ ~IsNumeric(leaf.value)
RuleScores(sources) ==
    UNION {DOMAIN sources[i].scores :
              i \in {j \in 1..Len(sources) : sources[j].type = "rules"}}

\* C5: when a `greater` leaf meets a non-numeric operand, classify_intent
\* completes normally and the rules without such a leaf are still
\* evaluated: the targets of those that match are scored.
C5_GreaterNeverRaises ==
    \A p \in Procs :
        /\ pc[p] = "done"
        /\ HasRead(p)
        /\ call[p].scored
        /\ NonNumericGreater(call[p].request, routing_rules)
        => /\ ~ret[p].exc
           /\ \A rule \in RulesOf(routing_rules) :
                 /\ \A leaf \in LeavesOf(rule) : ~IsGreater(leaf)
                 /\ evaluate_rule_conditions(rule, call[p].request) = Ok(TRUE)
                 => rule.actions.route \in RuleScores(call[p].sources)

\* C6: whatever the cache read and the cache write do, a call that the
\* cache answered returns a classification result; the cache never makes
\* classify_intent raise.
C6_CacheNeverFails ==
    \A p \in Procs :
        pc[p] = "done" /\ HasRead(p) /\ ~call[p].scored =>
            /\ ~ret[p].exc
            /\ {"intentId", "routing", "metadata"} \subseteq DOMAIN ret[p].val

\* the classifier returned a list of entries with a label and a numeric score
WellFormed(classifier) ==
    /\ ~classifier.raises
    /\ classifier.results.k = "list"
    /\ \A i \in 1..Len(classifier.results.xs) :
          /\ {"label", "score"} \subseteq DOMAIN classifier.results.xs[i]
          /\ classifier.results.xs[i].score.k = "num"
MLScores(sources) ==
    UNION {DOMAIN sources[i].scores :
              i \in {j \in 1..Len(sources) : sources[j].type = "ml"}}
\* the outcomes of the classification of `request` with no classifier
WithoutML(request) ==
    {w.result : w \in classify_fresh(request, FALSE, ClassifierRaises, 12,
                                      meta_routing_config, routing_rules, 0,
                                      ProcessingTime)}
SameDecision(a, b) ==
    /\ a.exc = b.exc
    /\ ~a.exc =>
          /\ a.val.routing.targetService = b.val.routing.targetService
          /\ a.val.recognizedIntent.confidence = b.val.recognizedIntent.confidence

\* C7: when the classifier is absent, raises or returns a malformed value,
\* the ML source scores no service and the call ends as the classification
\* with no ML source ends: same service, same confidence, and it raises
\* only if that one raises.
C7_MLDegradesToEmpty ==
    \A p \in Procs :
        HasOutcome(p) /\ call[p].scored /\ ~WellFormed(call[p].classifier) =>
            /\ MLScores(call[p].sources) = {}
            /\ \E w \in WithoutML(call[p].request) : SameDecision(OutcomeOf(p), w)

AllEmpty(sources) ==
    /\ Len(sources) > 0
    /\ \A i \in 1..Len(sources) : DOMAIN sources[i].scores = {}

NamedBy(sources, service) ==
    {i \in 1..Len(sources) : service \in DOMAIN sources[i].scores}
ScoreAt(sources, i, service) ==
    IF i \in NamedBy(sources, service) THEN sources[i].scores[service].n ELSE 0
ScoreSum(sources, service) ==
    ScoreAt(sources, 1, service) + ScoreAt(sources, 2, service)
        + ScoreAt(sources, 3, service)
ExtraSource(service, score) ==
    [type |-> "extra", scores |-> [s \in {service} |-> score]]

\* C8: _combine_scores gives each service that a source names the sum of
\* its scores divided by the number of sources naming it, gives no other
\* service an entry, and a further source that scores only a service not
\* named before leaves the scores of the others as they are.
C8_CombineIsMeanOverNamingSources ==
    fn_out.fn = "combine_scores" =>
        LET sources == SourcesOf(fn_in)
            named == {s \in ServiceNames : NamedBy(sources, s) # {}}
            combined == fn_out.result
        IN  /\ ~combined.exc
            /\ DOMAIN combined.val = named
            /\ \A s \in named :
                  combined.val[s] * Cardinality(NamedBy(sources, s))
                      = ScoreSum(sources, s)
            /\ \A u \in ServiceNames \ named : \A v \in ScoreValues :
                  LET more == combine_scores(sources \o <<ExtraSource(u, v)>>,
                                             EmptyMap)
                  IN  /\ ~more.exc
                      /\ \A s \in named : more.val[s] = combined.val[s]

\* of three sources two name the payment service, with 0.3 and 0.9
C8_TwoOfThreeSourcesName ==
    /\ fn_out.fn = "combine_scores"
    /\ Len(SourcesOf(fn_in)) = 3
    /\ Cardinality(NamedBy(SourcesOf(fn_in), PaymentService)) = 2
    /\ ScoreSum(SourcesOf(fn_in), PaymentService) = (12 * Unit) \div 10
    /\ fn_out.result.val[PaymentService] = (6 * Unit) \div 10

LeafMatches(leaf, request) == evaluate_condition(leaf, request) = Ok(TRUE)

\* C10: a rule with AND matches iff every leaf matches, a rule with OR
\* (and no AND) matches iff some leaf matches, and a rule with neither
\* never matches; the evaluation reads the rule and the request only.
C10_RuleMatchesAsCombinatorSays ==
    fn_out.fn = "evaluate_rule_conditions" =>
        LET conditions == Get(fn_in.rule, "conditions", EmptyMap)
            matches == fn_out.result = Ok(TRUE)
            every(leaves) == \A i \in 1..Len(leaves) : LeafMatches(leaves[i], fn_in.request)
            some(leaves) == \E i \in 1..Len(leaves) : LeafMatches(leaves[i], fn_in.request)
        IN  IF "AND" \in DOMAIN conditions THEN matches <=> every(conditions["AND"])
            ELSE IF "OR" \in DOMAIN conditions THEN matches <=> some(conditions["OR"])
            ELSE ~matches

\* the four fields of the fingerprint
Fingerprint(request) ==
    <<request.text, request.path, request.method, request.headers>>
FactorsFor(request) ==
    apply_contextual_factors(request, <<>>, meta_routing_config, 12).val.factors

\* C11: requests that agree on (text, path, method, headers) get the same
\* cache key whatever their context and body, and a call answered from the
\* cache returns the decision of the request that stored the entry, with
\* that request's contextualFactors.
C11_KeyIgnoresContextAndBody ==
    /\ \A r1 \in workload : \A r2 \in workload :
          Fingerprint(r1) = Fingerprint(r2) =>
              generate_cache_key(r1) = generate_cache_key(r2)
    /\ \A p \in Procs :
          pc[p] = "done" /\ HasRead(p) /\ FollowsFirst(p) =>
              /\ call[p].hit
              /\ ~ret[p].exc
              /\ ret[p].val.metadata.cacheHit
              /\ ret[p].val.intentId = call[p].first
              /\ Fingerprint(call[p].writer) = Fingerprint(call[p].request)
              /\ ret[p].val.contextualFactors = FactorsFor(call[p].writer)

\* a request with a userId has been answered with the factors of the request
\* without one
C11_AnsweredWithOtherContext ==
    \E p \in Procs :
        /\ pc[p] = "done"
        /\ HasRead(p)
        /\ call[p].hit
        /\ call[p].request = PayUserRequest
        /\ call[p].writer = PayRequest
        /\ ret[p].val.contextualFactors = FactorsFor(PayRequest)
        /\ ret[p].val.contextualFactors # FactorsFor(PayUserRequest)

\* a map that one complete cycle wrote, or the empty map
WholeCycle(status) ==
    \/ DOMAIN status = {}
    \/ /\ DOMAIN status = ServiceNames
       /\ \A s \in ServiceNames : \A t \in ServiceNames :
             status[s].last_checked = status[t].last_checked

\* C12: the map GET /health/services returns is the empty map or the map
\* one complete health cycle wrote: never one where some services carry a
\* cycle's entry and others an earlier cycle's entry or none.
C12_ReaderSeesWholeCycle ==
    reader.pc = "done" /\ reader.endpoint = "services" =>
        WholeCycle(reader.answer)

\* C13: GET /health/ready answers ready only if the ping was answered and
\* a health cycle over all the services of the catalog has completed.
C13_ReadyOnlyAfterFullCycle ==
    reader.pc = "done" /\ reader.endpoint = "ready" /\ ~reader.answer.exc =>
        /\ reader.answer.val.checks.redis
        /\ reader.cycle_done

\* C20: every probe outcome is recorded as healthy iff it is a 200, the
\* loop goes from its pause to a next cycle, and the entry of every
\* service of the catalog is written again and again.
C20_HealthLoopKeepsRefreshing ==
    /\ [](health_loop.wrote # "none" =>
             health_status[health_loop.wrote].status =
                 IF health_loop.outcome = "200" THEN "healthy" ELSE "unhealthy")
    /\ (health_loop.pc = "sleep") ~> (health_loop.pc = "probe")
    /\ \A s \in ServiceNames : []<>(health_loop.wrote = s)

\* a later cycle has recorded a probe that timed out as unhealthy
C20_SecondCycleRecordsTimeout ==
    /\ health_loop.done
    /\ health_loop.cycle = 0
    /\ health_loop.wrote = ServiceOrder[1]
    /\ health_loop.outcome = "timeout"
    /\ health_status[ServiceOrder[1]].status = "unhealthy"
    /\ health_status[ServiceOrder[2]].last_checked = 1

\* C14: two calls for the same fingerprint that have both missed the cache
\* before either has written hold the same decision, intentId included, so
\* whichever writes last the entry equals what each of them returns.
C14_RacingWritersStoreSameDecision ==
    \A p \in Procs : \A q \in Procs :
        /\ p # q
        /\ pc[p] = "set"
        /\ pc[q] = "set"
        /\ generate_cache_key(call[p].request) = generate_cache_key(call[q].request)
        => response[p] = response[q]

\* C15: no step of a classification changes the loaded configuration:
\* meta_routing_config, every intentCategories entry included, and
\* routing_rules are after the step what they were before.
C15_ClassificationLeavesConfiguration ==
    [][/\ meta_routing_config' = meta_routing_config
       /\ routing_rules' = routing_rules]_vars

RulesApplied == fn_out # NoOutput /\ fn_out.fn = "apply_routing_rules"
RuleHolds(i) == evaluate_rule_conditions(fn_in.rules[i], fn_in.request) = Ok(TRUE)
MatchingRules(service) ==
    {i \in DOMAIN fn_in.rules : RuleHolds(i) /\ fn_in.rules[i].actions.route = service}
LastOf(S) == CHOOSE i \in S : \A j \in S : j <= i
PriorityOf(i) ==
    IF "priority" \in DOMAIN fn_in.rules[i].actions
    THEN fn_in.rules[i].actions.priority ELSE 100

\* C16: the rule-based score map holds exactly the targets of the matching
\* rules, and each target's score is priority/1000 of the last matching rule
\* that routes to it, whatever the priorities of the earlier ones.
C16_LastMatchingRuleWins ==
    (RulesApplied /\ ~fn_out.result.exc) =>
        /\ DOMAIN fn_out.result.val
               = {s \in ServiceNames \cup ScoredServices : MatchingRules(s) # {}}
        /\ \A s \in DOMAIN fn_out.result.val :
               fn_out.result.val[s].n * 1000
                   = PriorityOf(LastOf(MatchingRules(s))) * Unit

\* two rules match for one service, the earlier one with the higher priority
C16_LowerPriorityOverwrites ==
    /\ RulesApplied
    /\ ~fn_out.result.exc
    /\ \E s \in DOMAIN fn_out.result.val :
          \E i, j \in MatchingRules(s) :
              /\ i < j
              /\ PriorityOf(i) > PriorityOf(j)
              /\ fn_out.result.val[s].n * 1000 = PriorityOf(j) * Unit

PatternsMatched == fn_out # NoOutput /\ fn_out.fn = "match_patterns"
ScoreOfCategory(i) == category_score(fn_in.categories[i].config, fn_in.request).val
ScoringCategories(service) ==
    {i \in DOMAIN fn_in.categories :
        /\ fn_in.categories[i].config.targetService = service
        /\ ScoreOfCategory(i) > 0}
HighestScore(S) == CHOOSE v \in {ScoreOfCategory(i) : i \in S} :
                       \A i \in S : ScoreOfCategory(i) <= v

\* C17 as stated: the pattern score of a service is the highest score among
\* the categories that target it, whatever their order in the configuration.
C17_HighestCategoryScoreKept ==
    (PatternsMatched /\ ~fn_out.result.exc) =>
        \A s \in DOMAIN fn_out.result.val :
            fn_out.result.val[s].n = HighestScore(ScoringCategories(s))

\* C17: the pattern score map holds exactly the targets of the categories
\* scoring above zero, and each target's score is that of the last such
\* category in configuration order.
C17_LastScoringCategoryWins ==
    (PatternsMatched /\ ~fn_out.result.exc) =>
        /\ DOMAIN fn_out.result.val
               = {s \in ServiceNames \cup ScoredServices : ScoringCategories(s) # {}}
        /\ \A s \in DOMAIN fn_out.result.val :
               fn_out.result.val[s].n = ScoreOfCategory(LastOf(ScoringCategories(s)))

\* two categories score for one service, the earlier one higher, and the map
\* holds the later, lower score
C17_LowerScoreOverwrites ==
    /\ PatternsMatched
    /\ ~fn_out.result.exc
    /\ \E s \in DOMAIN fn_out.result.val :
          \E i, j \in ScoringCategories(s) :
              /\ i < j
              /\ ScoreOfCategory(i) > ScoreOfCategory(j)
              /\ fn_out.result.val[s].n = ScoreOfCategory(j)

Classified == fn_out # NoOutput /\ fn_out.fn = "classify_intent"
\* what the selection of a result is: the failure, or the service, the
\* category and the confidence
DecisionOf(result) ==
    IF result.exc THEN result
    ELSE Ok([targetService |-> result.val.routing.targetService,
             category |-> result.val.recognizedIntent.category,
             confidence |-> result.val.recognizedIntent.confidence])
\* the selections of the classification of `request` under `factors` at `hour`
DecisionsUnder(request, factors, hour) ==
    {DecisionOf(w.result) :
        w \in classify_fresh(request, FALSE, ClassifierRaises, hour,
                             WithFactors(factors), FileConfig.rules, 0,
                             ProcessingTime)}
\* the requests that differ from `request` in context and body at most
SameButContext(request) ==
    {r \in FactorRequests : Fingerprint(r) = Fingerprint(request)}

C19_OneBreakerForAllServices ==
    [][\A p \in Procs :
          (/\ failures >= 5
           /\ now < breaker.opened + RecoveryTimeout
           /\ pc[p] = "idle"
           /\ pc'[p] # "idle"
           /\ call'[p].endpoint = "route"
           /\ TargetsOf(call'[p].request) \cap failed = {})
          => /\ pc'[p] = "done"
             /\ ret'[p] = Raise("CircuitBreakerError")
             /\ ~call'[p].attempted]_vars

\* five calls routed to payment-processing-service have failed and a call
\* for data-analytics-service, which no failed call was routed to, has been
\* rejected
C19_OtherServiceRejected ==
    \E p \in Procs :
        /\ pc[p] = "done"
        /\ call[p].endpoint = "route"
        /\ call[p].request = DeleteRequest
        /\ TargetsOf(DeleteRequest) = {AnalyticsService}
        /\ failed = {PaymentService}
        /\ failures = 5
        /\ call[p].entered = "open"
        /\ ret[p] = Raise("CircuitBreakerError")
        /\ ~call[p].attempted

\* the /route call of p ends in this step by raising out of the handler
EndsRaising(p) ==
    /\ pc[p] \in {"get", "set", "fwd"}
    /\ call[p].endpoint = "route"
    /\ pc'[p] = "done"
    /\ ret'[p].exc

\* C21: every /route call that ends by raising out of the handler, a 503 for
\* a target outside the catalog and a classification error included, adds
\* one to the breaker's count and opens the breaker at the fifth in a row;
\* a call that arrives while the breaker is open gets the breaker-open error
\* and never the 503.
C21_EveryRaiseCountsAsFailure ==
    [][\A p \in Procs :
          /\ EndsRaising(p) =>
                /\ breaker'.failure_count = breaker.failure_count + 1
                /\ failures' = failures + 1
                /\ failures' >= 5 => breaker'.state = "open"
          /\ (pc'[p] = "done" /\ call'[p].endpoint = "route"
                 /\ call'[p].entered = "open")
                => ret'[p] = Raise("CircuitBreakerError")]_vars

\* five calls have raised before any downstream attempt, by a 503 and by a
\* classification error, and the sixth, for the service outside the
\* catalog, is rejected by the open breaker
C21_OpenedWithoutDownstreamCall ==
    \E p \in Procs :
        /\ calls = 6
        /\ failures = 5
        /\ failed = {LegacyService, "none"}
        /\ breaker.state = "open"
        /\ pc[p] = "done"
        /\ call[p].request = LegacyRequest
        /\ call[p].entered = "open"
        /\ ~call[p].attempted
        /\ ret[p] = Raise("CircuitBreakerError")

\* the store holds an unexpired entry for the request of the call of p
EntryLive(p) ==
    /\ redis_client
    /\ cache[generate_cache_key(call[p].request)].live
    /\ now < cache[generate_cache_key(call[p].request)].expires
EntryOf(p) == cache[generate_cache_key(call[p].request)].doc

\* C22: a reload replaces the configuration and leaves the result cache as
\* it is; a call that finds an unexpired entry returns that entry's decision
\* with cacheHit = true whatever the configuration is by then, and a call
\* that finds none is classified under the configuration of that moment.
C22_ReloadKeepsCachedDecisions ==
    [][/\ (pc' = pc /\ <<meta_routing_config, routing_rules>>'
                          # <<meta_routing_config, routing_rules>>)
          => cache' = cache
       /\ \A p \in Procs :
             (pc[p] = "get" /\ pc'[p] # "get") =>
                 IF EntryLive(p)
                 THEN /\ pc'[p] = "done"
                      /\ call'[p].hit
                      /\ ~ret'[p].exc
                      /\ ret'[p].val.metadata.cacheHit
                      /\ ret'[p].val.intentId = EntryOf(p).intentId
                      /\ ret'[p].val.routing = EntryOf(p).routing
                 ELSE /\ ~call'[p].hit
                      /\ pc'[p] = "set" =>
                            response'[p].routing.targetService
                                \in TargetsOf(call[p].request)
                      /\ (pc'[p] = "done" /\ ~ret'[p].exc) =>
                            ret'[p].val.routing.targetService
                                \in TargetsOf(call[p].request)]_vars

\* after a reload that routes /pay to data-analytics-service, a call for
\* /pay/checkout has been answered from the cache with the service of the
\* configuration before the reload
C22_OldDecisionAfterReload ==
    \E p \in Procs :
        /\ routing_rules = ReloadedConfig.rules
        /\ TargetsOf(PayRequest) = {AnalyticsService}
        /\ pc[p] = "done"
        /\ HasRead(p)
        /\ call[p].hit
        /\ call[p].request = PayRequest
        /\ ret[p].val.metadata.cacheHit
        /\ ret[p].val.routing.targetService = PaymentService

====
